---------------------------- MODULE Spec2Model ----------------------------
(***************************************************************************)
(* A model of the XRF interpreter of src/xrf.c.  The file holds two        *)
(* revisions of the interpreter: revision 1 (lines 1-346) keeps a size     *)
(* counter and reuses popped nodes, revision 2 (lines 348-712) allocates a *)
(* node on every push and frees it on every pop.  The variable rev says    *)
(* which revision runs.                                                    *)
(***************************************************************************)
EXTENDS Integers, Sequences, FiniteSets, TLC

(***************************************************************************)
(* Bounds of the model.                                                    *)
(***************************************************************************)
\* number of stack nodes that can be allocated at one time
MaxNodes == 3
\* largest stack value the model lets an opcode produce
MaxVal == 3
\* largest byte getchar() delivers in the model
MaxByte == 2
\* largest value rand() returns in the model
MaxRand == 2
\* number of bytes written to the output that the model records
MaxOut == 2

(***************************************************************************)
(* Program constants.                                                      *)
(***************************************************************************)
COMMANDS_PER_CHUNK == 5
NULL == 0
EOF == 0 - 1
\* int and unsigned int are 32 bits wide
INT_MAX == 2147483647
INT_MIN == 0 - INT_MAX - 1
\* putchar() writes its argument converted to unsigned char
UCHAR_MOD == 256

(***************************************************************************)
(* unsigned int.  The model writes an unsigned value as the int with the   *)
(* same 32 bits: u itself below 2^31, u - 2^32 from 2^31 on, so that       *)
(* UINT_MAX is written -1 and the conversions between int and unsigned     *)
(* leave the number as it is.  UAdd, USub, ULess and URem are +, -, < and  *)
(* % of unsigned operands.                                                 *)
(***************************************************************************)
UAdd(a, b) ==
  IF a >= 0 /\ b >= 0 /\ a > INT_MAX - b
  THEN (a - INT_MAX - 1) + (b - INT_MAX - 1)
  ELSE IF a < 0 /\ b < 0 /\ a < INT_MIN - b
  THEN (a + INT_MAX + 1) + (b + INT_MAX + 1)
  ELSE a + b

UNeg(b) == IF b = INT_MIN THEN INT_MIN ELSE 0 - b

USub(a, b) == UAdd(a, UNeg(b))

ULess(a, b) == IF (a < 0) = (b < 0) THEN a < b ELSE b < 0

\* a % b for 0 <= a < 2^31 and b # 0
URem(a, b) == IF b < 0 THEN a ELSE a % b

Nodes == 1..MaxNodes

(***************************************************************************)
(* Characters.  A file is a sequence of bytes; Ord gives the byte of each  *)
(* character the model's files are written with.                           *)
(***************************************************************************)
Ord(c) ==
  CASE c = "0" -> 48 [] c = "1" -> 49 [] c = "2" -> 50 [] c = "3" -> 51
    [] c = "4" -> 52 [] c = "5" -> 53 [] c = "6" -> 54 [] c = "7" -> 55
    [] c = "8" -> 56 [] c = "9" -> 57
    [] c = "A" -> 65 [] c = "B" -> 66 [] c = "C" -> 67 [] c = "D" -> 68
    [] c = "E" -> 69 [] c = "F" -> 70 [] c = "G" -> 71
    [] c = "b" -> 98
    [] c = " " -> 32 [] c = "\n" -> 10 [] c = "\t" -> 9
    [] c = "ff" -> 255   \* the byte 255, written "ff"

\* the bytes of a text given as a tuple of one-character strings
Bytes(s) == [k \in 1..Len(s) |-> Ord(s[k])]

isspace(c) == c \in {9, 10, 11, 12, 13, 32}

(***************************************************************************)
(* The program files of the model: every chunk of Chunks alone, every pair *)
(* of them, the chunks of ShortStackChunks and of SingleChunks alone, and  *)
(* files the loader has to skip over or to refuse.                         *)
(***************************************************************************)
Chunks ==
  { <<"0","1","2","B","2">>,      \* read, write, drop, halt
    <<"5","5","5","5","B">>,      \* count to 4, halt
    <<"5","5","5","5","A">>,      \* count to 4, return
    <<"1","2","2","2","2">>,      \* write, then drop an empty stack
    <<"2","0","3","A","F">>,      \* drop the last value, then read
    <<"2","D","5","A","F">>,      \* drop the last value, then shuffle
    <<"8","5","A","B","F">>,      \* increment unless first visit
    <<"C","5","A","B","F">>,      \* increment on first visit only
    <<"6","A","F","F","F">>,      \* decrement, return
    <<"0","3","9","7","A">>,      \* read, duplicate, rotate, add
    <<"0","0","D","E","A">>,      \* read twice, shuffle, difference
    <<"3","4","9","2","2">>,      \* duplicate, swap, rotate, drop, drop
    <<"F","0","4","E","8">>,      \* read, swap, difference, 8 in the last slot
    <<"2","9","A","A","A">>,      \* rotate an empty stack
    <<"3","7","1","0","C">>,      \* duplicate, add, write, read
    <<"0","0","9","2","A">> }     \* read twice, rotate, drop

\* each opcode that needs a value on an empty stack, and each opcode that
\* needs two on the one value execute_code starts with
ShortStackChunks ==
  { << "2", x, "A", "A", "A" >> :
      x \in {"1", "2", "3", "4", "5", "6", "7", "9", "E"} }
  \cup { << x, "A", "A", "A", "A" >> : x \in {"4", "7", "E"} }

SingleChunks ==
  { <<"0","0","2","9","0">>,      \* rotate and read after a drop
    <<"0","2","0","2","2">>,      \* read and drop twice, drop the last value
    <<"3","5","E","A","A">>,      \* difference of 1 over 0
    <<"5","3","6","E","A">>,      \* difference of 0 over 1
    <<"5","3","3","6","A">>,      \* decrement above two other values
    <<"5","3","5","D","B">>,      \* shuffle 2 over 1
    <<"0","0","9","9","9">>,      \* rotate three values three times
    <<"8","F","F","A","5">>,      \* F after 8, executed and skipped
    <<"C","F","F","A","5">> }     \* F after C, executed and skipped

OtherFiles ==
  { <<>>,                                  \* empty file
    <<" ","\n","\t">>,                     \* white space only
    <<"5","5","\n","5","5"," ","B","\n">>, \* a chunk with white space in it
    <<"5","5","5","5">>,                   \* four commands
    <<"5","5","5","5","B","A">>,           \* six commands
    <<"5","5","G","5","B">>,               \* a letter that is no command
    <<"5","b","5","5","B">>,               \* a lower-case letter
    <<"5","5","5","5","B","G">>,           \* a wrong letter after a chunk
    <<"5","5","5","ff","B","B">>,          \* byte 255 inside the text
    <<"5","5","5","5","B","ff","G">> }     \* byte 255 after a chunk

Files ==
  { Bytes(t) : t \in OtherFiles \cup Chunks \cup ShortStackChunks
                      \cup SingleChunks
                      \cup { c \o d : c, d \in Chunks } }

(***************************************************************************)
(* The state.                                                              *)
(***************************************************************************)
VARIABLES
  rev,          \* the revision of the interpreter that runs: 1 or 2
  char_signed,  \* whether plain char is signed in this build (revision 2 reads
                \* the file into a char)
  file,         \* the bytes of the program file
  pc,           \* "main", "execute_code", "call", "chunk", "boundary", "done"
  status,       \* "Running", "Halted", "Failed" or "Crashed"
  exit_status,  \* the exit status of the process, -1 while it runs
  diag,         \* the message written to stderr and its argument
  ub,           \* the undefined step the run performed, "" if none
  code,         \* struct Code: commands, visited, len
  cur_chunk,    \* execute_code's cur_chunk
  i,            \* execute_chunk's i
  visited,      \* execute_chunk's parameter visited
  mem,          \* the stack: top (stack in revision 2), bottom, stack_size
                \* and the nodes' fields
  out,          \* the bytes written by putchar
  runs,         \* for each chunk, how often its execution began (at most 2)
  twin          \* where the two revisions run side by side (SpecPair): the
                \* process of revision 2; NoTwin where one process runs

vars == << rev, char_signed, file, pc, status, exit_status, diag, ub, code,
           cur_chunk, i, visited, mem, out, runs, twin >>

NoDiag == [msg |-> "", arg |-> 0 - 1]

NoTwin == [pc |-> "absent"]

(***************************************************************************)
(* read_xrf_file.  The loop is read_loop: k is the position of the next    *)
(* byte fgetc delivers, st the loader's variables.                         *)
(***************************************************************************)
\* the value of c after c = fgetc(file): an int in revision 1, a char in
\* revision 2
fgetc_to_c(r, signed, raw) ==
  IF r = 1 THEN raw
  ELSE IF signed THEN (IF raw >= 128 THEN raw - 256 ELSE raw)
  ELSE raw % UCHAR_MOD

IsCommand(c) == (c >= Ord("0") /\ c <= Ord("9")) \/ (c >= Ord("A") /\ c <= Ord("F"))

RECURSIVE read_loop(_, _, _, _, _)
read_loop(r, signed, f, k, st) ==
  LET raw == IF k <= Len(f) THEN f[k] ELSE EOF
      c == fgetc_to_c(r, signed, raw)
  IN IF c = EOF THEN st
     ELSE IF c < 0 THEN [st EXCEPT !.res = "ub", !.msg = "isspace of a negative char"]
     ELSE IF isspace(c) THEN read_loop(r, signed, f, k + 1, st)
     ELSE IF IsCommand(c) THEN
       LET grown ==
             IF st.cur_cmd % COMMANDS_PER_CHUNK = 0
             THEN LET n == st.len + COMMANDS_PER_CHUNK IN
                  [st EXCEPT
                     !.len = n,
                     !.commands = [x \in 0..(n - 1) |->
                                     IF x < st.len THEN st.commands[x] ELSE 0],
                     !.visited = [x \in 0..((n \div COMMANDS_PER_CHUNK) - 1) |->
                                     IF x < st.len \div COMMANDS_PER_CHUNK
                                     THEN st.visited[x] ELSE FALSE]]
             ELSE st
       IN read_loop(r, signed, f, k + 1,
                    [grown EXCEPT !.commands[st.cur_cmd] = c,
                                  !.cur_cmd = st.cur_cmd + 1])
     ELSE [st EXCEPT !.res = "exit", !.msg = "Unknown character encountered",
                     !.arg = c]

read_xrf_file(r, signed, f) ==
  LET st0 == [res |-> "ok", msg |-> "", arg |-> 0 - 1, cur_cmd |-> 0, len |-> 0,
              commands |-> << >>, visited |-> << >>]
      st == read_loop(r, signed, f, 1, st0)
  IN IF st.res # "ok" THEN st
     ELSE IF st.cur_cmd % COMMANDS_PER_CHUNK # 0
          THEN [st EXCEPT !.res = "exit", !.msg = "Inadequate code length"]
          ELSE st

(***************************************************************************)
(* The stack.  mem holds the pointers top and bottom (revision 2 calls the *)
(* top pointer stack), revision 1's stack_size, the fields val, next and   *)
(* prev of every node, and live, the set of nodes malloc has handed out    *)
(* and free has not taken back.  A function of the source becomes an       *)
(* operator from mem to a result: the new mem, how the call ended (res:    *)
(* "ok", "exit" for exit(1), "ub" for an undefined step, "bound" when the  *)
(* model has no node left to allocate), the message and the return value.  *)
(***************************************************************************)
Ok(m, r) == [mem |-> m, res |-> "ok", msg |-> "", ret |-> r]
Exit1(m, msg) == [mem |-> m, res |-> "exit", msg |-> msg, ret |-> 0]
Undefined(m, what) == [mem |-> m, res |-> "ub", msg |-> what, ret |-> 0]
OutOfNodes(m) == [mem |-> m, res |-> "bound", msg |-> "", ret |-> 0]

\* the nodes from n along the next pointers, at most fuel of them
RECURSIVE Chain(_, _, _)
Chain(m, n, fuel) ==
  IF n = NULL \/ fuel = 0 THEN << >>
  ELSE << n >> \o Chain(m, m.next[n], fuel - 1)

\* the nodes of the stack from the top down, and their values
StackNodes(m) == Chain(m, m.top, MaxNodes + 1)
StackSeq(m) == [k \in 1..Len(StackNodes(m)) |-> m.val[StackNodes(m)[k]]]

FreeNodes(m) == Nodes \ m.live
FirstFree(m) == CHOOSE n \in FreeNodes(m) : \A x \in FreeNodes(m) : n <= x

\* mem after malloc has handed out node n and new_stack_node has filled it
new_stack_node(m, n, v) ==
  [m EXCEPT !.live = @ \cup {n}, !.val[n] = v, !.next[n] = NULL,
            !.prev[n] = NULL]

(***************************************************************************)
(* Revision 1.                                                             *)
(***************************************************************************)
push_stack1(m, v) ==
  IF m.top = NULL THEN Undefined(m, "top->prev with top == NULL")
  ELSE IF m.prev[m.top] # NULL THEN
    LET p == m.prev[m.top] IN
    Ok([m EXCEPT !.top = p, !.val[p] = v, !.stack_size = @ + 1], 0)
  ELSE IF FreeNodes(m) = {} THEN OutOfNodes(m)
  ELSE
    LET node == FirstFree(m)
        m1 == new_stack_node(m, node, v)
    IN Ok([m1 EXCEPT !.prev[m.top] = node, !.next[node] = m.top, !.top = node,
                     !.stack_size = @ + 1], 0)

\* pop_stack without its test of stack_size
pop_stack1_unchecked(m) ==
  IF m.top = NULL THEN Undefined(m, "top->val with top == NULL")
  ELSE Ok([m EXCEPT !.top = m.next[m.top], !.stack_size = @ - 1], m.val[m.top])

pop_stack1(m) ==
  IF m.stack_size = 0 THEN Exit1(m, "Can't pop an empty stack")
  ELSE IF m.top = NULL THEN Undefined(m, "top->val with top == NULL")
  ELSE Ok([m EXCEPT !.top = m.next[m.top], !.stack_size = @ - 1], m.val[m.top])

swap_stack1(m) ==
  IF m.stack_size < 2
  THEN Exit1(m, IF m.stack_size = 1
                THEN "Can't swap the top two elements on a one-element stack"
                ELSE "Can't swap the top two elements on an empty stack")
  ELSE IF m.top = NULL THEN Undefined(m, "top->val with top == NULL")
  ELSE IF m.next[m.top] = NULL THEN Undefined(m, "top->next->val with top->next == NULL")
  ELSE LET t == m.top
           n == m.next[m.top]
       IN Ok([m EXCEPT !.val[t] = m.val[n], !.val[n] = m.val[t]], 0)

dup_stack1(m) ==
  IF m.stack_size = 0 THEN Exit1(m, "Nothing on the stack to be duplicated")
  ELSE IF m.top = NULL THEN Undefined(m, "top->val with top == NULL")
  ELSE push_stack1(m, m.val[m.top])

send_top_to_bottom1(m) ==
  IF m.stack_size = 0
  THEN Exit1(m, "Can't send nonexistent value to the bottom of the stack")
  ELSE IF m.stack_size = 1 THEN Ok(m, 0)
  ELSE IF m.top = NULL THEN Undefined(m, "top->next with top == NULL")
  ELSE IF m.next[m.top] = NULL THEN Undefined(m, "top->prev with the new top == NULL")
  ELSE IF m.bottom = NULL THEN Undefined(m, "bottom->next with bottom == NULL")
  ELSE
    LET temp == m.top
        t == m.next[temp]
        \* top = top->next; top->prev = temp->prev;
        m1 == [m EXCEPT !.top = t, !.prev[t] = m.prev[temp]]
        \* if (temp->prev != NULL) temp->prev->next = top;
        m2 == IF m1.prev[temp] # NULL
              THEN [m1 EXCEPT !.next[m1.prev[temp]] = t] ELSE m1
        \* bottom->next = temp; temp->prev = bottom;
        m3 == [m2 EXCEPT !.next[m2.bottom] = temp]
        m4 == [m3 EXCEPT !.prev[temp] = m3.bottom]
        \* bottom = temp; temp->next = NULL;
        m5 == [m4 EXCEPT !.bottom = temp]
    IN Ok([m5 EXCEPT !.next[temp] = NULL], 0)

\* the shuffle loop of randomize_stack: idx is the loop's i, rs[idx] the value
\* rand() returns in the pass with i = idx.  The result is the array, and
\* whether a pass took a remainder by 0 or indexed vals outside its bounds.
RECURSIVE shuffle_loop(_, _, _)
shuffle_loop(vals, idx, rs) ==
  IF idx = 0 THEN [ub |-> FALSE, vals |-> vals]
  ELSE LET divisor == UAdd(idx, 1) IN
       IF divisor = 0 \/ ~(idx >= 0 /\ idx < Len(vals))
       THEN [ub |-> TRUE, vals |-> vals]
       ELSE LET swap_index == URem(rs[idx], divisor)
                swapped == [vals EXCEPT ![swap_index + 1] = vals[idx + 1],
                                        ![idx + 1] = vals[swap_index + 1]]
            IN shuffle_loop(swapped, USub(idx, 1), rs)

\* write_back with a loop that does not advance i
write_back_first(m, vals) ==
  LET ns == StackNodes(m) IN
  [m EXCEPT !.val = [n \in Nodes |->
     IF \E k \in 1..Len(ns) : ns[k] = n THEN vals[1] ELSE m.val[n]]]

\* the last loop of randomize_stack: the k-th node from the top gets vals[k]
write_back(m, vals) ==
  LET ns == StackNodes(m) IN
  [m EXCEPT !.val = [n \in Nodes |->
     IF \E k \in 1..Len(ns) : ns[k] = n
     THEN vals[CHOOSE k \in 1..Len(ns) : ns[k] = n] ELSE m.val[n]]]

randomize_stack1(m, rs) ==
  IF m.stack_size = 0 THEN Ok(m, 0)
  ELSE IF Len(StackNodes(m)) > m.stack_size
       THEN Undefined(m, "vals[i] written past the end of vals")
  ELSE IF Len(StackNodes(m)) < m.stack_size
       THEN Undefined(m, "vals[i] read before it was written")
  ELSE
    LET shuffled == shuffle_loop(StackSeq(m), m.stack_size - 1, rs)
    IN IF shuffled.ub THEN Undefined(m, "rand() % (i + 1) with i + 1 == 0")
       ELSE Ok(write_back(m, shuffled.vals), 0)

(***************************************************************************)
(* Revision 2.  Its top pointer, stack, is mem.top; it has no stack_size   *)
(* and no prev field, and the model leaves both untouched.                 *)
(***************************************************************************)
\* mem after free(n)
free_node(m, n) ==
  [m EXCEPT !.live = @ \ {n}, !.val[n] = 0, !.next[n] = NULL]

push_stack2(m, v) ==
  IF FreeNodes(m) = {} THEN OutOfNodes(m)
  ELSE
    LET node == FirstFree(m)
        m1 == new_stack_node(m, node, v)
        m2 == [m1 EXCEPT !.next[node] = m.top, !.top = node]
    IN Ok(IF m2.bottom = NULL THEN [m2 EXCEPT !.bottom = m2.top] ELSE m2, 0)

pop_stack2(m) ==
  IF m.top = NULL THEN Exit1(m, "Unable to pop empty stack")
  ELSE
    LET node == m.top
        m1 == free_node([m EXCEPT !.top = m.next[node]], node)
    IN Ok(IF m1.top = NULL THEN [m1 EXCEPT !.bottom = m1.top] ELSE m1,
          m.val[node])

swap_stack2(m) ==
  IF m.top = NULL
  THEN Exit1(m, "Can't swap the top two elements on an empty stack")
  ELSE IF m.next[m.top] = NULL
  THEN Exit1(m, "Can't swap the top two elements on a one-element stack")
  ELSE LET t == m.top
           n == m.next[m.top]
       IN Ok([m EXCEPT !.val[t] = m.val[n], !.val[n] = m.val[t]], 0)

dup_stack2(m) ==
  IF m.top = NULL THEN Exit1(m, "Nothing on the stack to be duplicated")
  ELSE push_stack2(m, m.val[m.top])

\* send_top_to_bottom without bottom = bottom->next
send_top_to_bottom2_keeps_bottom(m) ==
  IF m.top = NULL
  THEN Exit1(m, "Can't send nonexistent value to the bottom of the stack")
  ELSE IF m.next[m.top] = NULL THEN Ok(m, 0)
  ELSE IF m.bottom = NULL THEN Undefined(m, "bottom->next with bottom == NULL")
  ELSE
    LET node == m.top
        m1 == [m EXCEPT !.top = m.next[node]]
        m2 == [m1 EXCEPT !.next[m1.bottom] = node]
    IN Ok([m2 EXCEPT !.next[m2.bottom] = NULL], 0)

send_top_to_bottom2(m) ==
  IF m.top = NULL
  THEN Exit1(m, "Can't send nonexistent value to the bottom of the stack")
  ELSE IF m.next[m.top] = NULL THEN Ok(m, 0)
  ELSE IF m.bottom = NULL THEN Undefined(m, "bottom->next with bottom == NULL")
  ELSE
    LET node == m.top
        \* stack = stack->next; bottom->next = node;
        m1 == [m EXCEPT !.top = m.next[node]]
        m2 == [m1 EXCEPT !.next[m1.bottom] = node]
        \* bottom = bottom->next; bottom->next = NULL;
        m3 == [m2 EXCEPT !.bottom = m2.next[m2.bottom]]
    IN IF m3.bottom = NULL THEN Undefined(m, "bottom->next with bottom == NULL")
       ELSE Ok([m3 EXCEPT !.next[m3.bottom] = NULL], 0)

randomize_stack2(m, rs) ==
  LET num_vals == Len(StackNodes(m))
      shuffled == shuffle_loop(StackSeq(m), USub(num_vals, 1), rs)
  IN IF shuffled.ub THEN Undefined(m, "rand() % (i + 1) with i + 1 == 0")
     ELSE Ok(write_back(m, shuffled.vals), 0)

(***************************************************************************)
(* The calls of execute_chunk, by revision.                                *)
(***************************************************************************)
push_stack(r, m, v) == IF r = 1 THEN push_stack1(m, v) ELSE push_stack2(m, v)
pop_stack(r, m) == IF r = 1 THEN pop_stack1(m) ELSE pop_stack2(m)
swap_stack(r, m) == IF r = 1 THEN swap_stack1(m) ELSE swap_stack2(m)
dup_stack(r, m) == IF r = 1 THEN dup_stack1(m) ELSE dup_stack2(m)
send_top_to_bottom(r, m) ==
  IF r = 1 THEN send_top_to_bottom1(m) ELSE send_top_to_bottom2(m)
randomize_stack(r, m, rs) ==
  IF r = 1 THEN randomize_stack1(m, rs) ELSE randomize_stack2(m, rs)

\* the test each revision makes for "fewer than k values": revision 1 reads
\* stack_size, revision 2 follows the pointers
IsEmpty(r, m) == IF r = 1 THEN m.stack_size = 0 ELSE m.top = NULL
HasOne(r, m) ==
  IF r = 1 THEN m.stack_size = 1 ELSE m.top # NULL /\ m.next[m.top] = NULL
FewerThanTwo(r, m) ==
  IF r = 1 THEN m.stack_size < 2 ELSE m.top = NULL \/ m.next[m.top] = NULL

(***************************************************************************)
(* execute_chunk: one operator for each case of the switch.  Each gives    *)
(* the result of executing that opcode on mem; case_1's ret is the value   *)
(* handed to putchar.                                                      *)
(***************************************************************************)
\* case '0': ch is what getchar() returned
case_0(r, m, ch) ==
  LET temp_val == ch IN
  IF temp_val = EOF THEN push_stack(r, m, 0)
  ELSE push_stack(r, m, temp_val)

case_1(r, m) ==
  IF IsEmpty(r, m) THEN Exit1(m, "Cannot output nonexistent value")
  ELSE pop_stack(r, m)

case_2(r, m) == pop_stack(r, m)

case_3(r, m) == dup_stack(r, m)

case_4(r, m) == swap_stack(r, m)

\* case '5' with a test that also refuses a stack of one value
case_5_refuses_one(r, m) ==
  IF FewerThanTwo(r, m) THEN Exit1(m, "Cannot increment nonexistent value")
  ELSE Ok([m EXCEPT !.val[m.top] = UAdd(@, 1)], 0)

case_5(r, m) ==
  IF IsEmpty(r, m) THEN Exit1(m, "Cannot increment nonexistent value")
  ELSE IF m.top = NULL THEN Undefined(m, "top->val with top == NULL")
  ELSE Ok([m EXCEPT !.val[m.top] = UAdd(@, 1)], 0)

\* case '6' without the test top->val > 0
case_6_wraps(r, m) ==
  IF IsEmpty(r, m) THEN Exit1(m, "Cannot decrement nonexistent value")
  ELSE IF m.top = NULL THEN Undefined(m, "top->val with top == NULL")
  ELSE Ok([m EXCEPT !.val[m.top] = USub(@, 1)], 0)

case_6(r, m) ==
  IF IsEmpty(r, m) THEN Exit1(m, "Cannot decrement nonexistent value")
  ELSE IF m.top = NULL THEN Undefined(m, "top->val with top == NULL")
  ELSE IF m.val[m.top] # 0
       THEN Ok([m EXCEPT !.val[m.top] = USub(@, 1)], 0)
       ELSE Ok(m, 0)

case_7(r, m) ==
  IF FewerThanTwo(r, m)
  THEN Exit1(m, IF HasOne(r, m)
                THEN "Cannot add the top values of a one-value stack"
                ELSE "Cannot add the top values of an empty stack")
  ELSE IF m.top = NULL THEN Undefined(m, "top->next with top == NULL")
  ELSE IF m.next[m.top] = NULL
       THEN Undefined(m, "top->next->val with top->next == NULL")
  ELSE
    LET added == [m EXCEPT !.val[m.next[m.top]] = UAdd(@, m.val[m.top])]
    IN IF r = 1 THEN pop_stack1(added)
       \* revision 2: temp = stack; stack = stack->next; free(temp);
       ELSE Ok(free_node([added EXCEPT !.top = m.next[m.top]], m.top), 0)

\* cases '8' and 'C': the number of slots the case skips
case_8(v) == IF ~v THEN 1 ELSE 0
case_C(v) == IF v THEN 1 ELSE 0

case_9(r, m) == send_top_to_bottom(r, m)

case_D(r, m, rs) == randomize_stack(r, m, rs)

\* case 'E' without the comparison: top->val -= temp_val in every case
case_E_subtracts(r, m) ==
  IF FewerThanTwo(r, m)
  THEN Exit1(m, IF HasOne(r, m)
                THEN "Cannot get the difference of the top two values of a one-value stack"
                ELSE "Cannot get the difference of the top two values of an empty stack")
  ELSE
    LET popped == pop_stack(r, m)
        m1 == popped.mem
        temp_val == popped.ret
    IN IF popped.res # "ok" THEN popped
       ELSE IF m1.top = NULL THEN Undefined(m1, "top->val with top == NULL")
       ELSE Ok([m1 EXCEPT !.val[m1.top] = USub(@, temp_val)], 0)

case_E(r, m) ==
  IF FewerThanTwo(r, m)
  THEN Exit1(m, IF HasOne(r, m)
                THEN "Cannot get the difference of the top two values of a one-value stack"
                ELSE "Cannot get the difference of the top two values of an empty stack")
  ELSE
    LET popped == pop_stack(r, m)
        m1 == popped.mem
        temp_val == popped.ret
    IN IF popped.res # "ok" THEN popped
       ELSE IF m1.top = NULL THEN Undefined(m1, "top->val with top == NULL")
       ELSE IF ~ULess(m1.val[m1.top], temp_val)
            THEN Ok([m1 EXCEPT !.val[m1.top] = USub(@, temp_val)], 0)
            ELSE Ok([m1 EXCEPT !.val[m1.top] = USub(temp_val, @)], 0)

(***************************************************************************)
(* execute_code.                                                           *)
(***************************************************************************)
ChunkCount(cd) == cd.len \div COMMANDS_PER_CHUNK

\* after_chunk reading the next chunk from the bottom of the stack
after_chunk_reads_bottom(r, m, cd, cur) ==
  LET marked == [cd EXCEPT !.visited[cur] = TRUE] IN
  IF IsEmpty(r, m)
  THEN [code |-> marked, cur_chunk |-> cur, res |-> "exit",
        msg |-> "Can't have an empty stack upon reaching the end of a chunk",
        arg |-> 0 - 1]
  ELSE IF ~ULess(m.val[m.bottom], ChunkCount(cd))
  THEN [code |-> marked, cur_chunk |-> m.val[m.bottom], res |-> "exit",
        msg |-> "Cannot go to nonexistent chunk", arg |-> m.val[m.bottom]]
  ELSE [code |-> marked, cur_chunk |-> m.val[m.bottom], res |-> "ok",
        msg |-> "", arg |-> 0 - 1]

\* after_chunk without its test for an empty stack
after_chunk_no_empty_test(r, m, cd, cur) ==
  LET marked == [cd EXCEPT !.visited[cur] = TRUE] IN
  IF m.top = NULL
  THEN [code |-> marked, cur_chunk |-> cur, res |-> "ub",
        msg |-> "top->val with top == NULL", arg |-> 0 - 1]
  ELSE IF ~ULess(m.val[m.top], ChunkCount(cd))
  THEN [code |-> marked, cur_chunk |-> m.val[m.top], res |-> "exit",
        msg |-> "Cannot go to nonexistent chunk", arg |-> m.val[m.top]]
  ELSE [code |-> marked, cur_chunk |-> m.val[m.top], res |-> "ok",
        msg |-> "", arg |-> 0 - 1]

\* after_chunk marking the chunk it goes to instead of the chunk it comes from
after_chunk_marks_next(r, m, cd, cur) ==
  IF IsEmpty(r, m)
  THEN [code |-> cd, cur_chunk |-> cur, res |-> "exit",
        msg |-> "Can't have an empty stack upon reaching the end of a chunk",
        arg |-> 0 - 1]
  ELSE IF ~ULess(m.val[m.top], ChunkCount(cd))
  THEN [code |-> cd, cur_chunk |-> m.val[m.top], res |-> "exit",
        msg |-> "Cannot go to nonexistent chunk", arg |-> m.val[m.top]]
  ELSE [code |-> [cd EXCEPT !.visited[m.val[m.top]] = TRUE],
        cur_chunk |-> m.val[m.top], res |-> "ok", msg |-> "", arg |-> 0 - 1]

\* after_chunk with code.visited[cur_chunk] = true moved behind the two tests
after_chunk_marks_late(r, m, cd, cur) ==
  IF IsEmpty(r, m)
  THEN [code |-> cd, cur_chunk |-> cur, res |-> "exit",
        msg |-> "Can't have an empty stack upon reaching the end of a chunk",
        arg |-> 0 - 1]
  ELSE IF ~ULess(m.val[m.top], ChunkCount(cd))
  THEN [code |-> cd, cur_chunk |-> m.val[m.top], res |-> "exit",
        msg |-> "Cannot go to nonexistent chunk", arg |-> m.val[m.top]]
  ELSE [code |-> [cd EXCEPT !.visited[cur] = TRUE],
        cur_chunk |-> m.val[m.top], res |-> "ok", msg |-> "", arg |-> 0 - 1]

\* the statements of the loop that follow the call of execute_chunk
after_chunk(r, m, cd, cur) ==
  LET marked == [cd EXCEPT !.visited[cur] = TRUE] IN
  IF IsEmpty(r, m)
  THEN [code |-> marked, cur_chunk |-> cur, res |-> "exit",
        msg |-> "Can't have an empty stack upon reaching the end of a chunk",
        arg |-> 0 - 1]
  ELSE IF m.top = NULL
  THEN [code |-> marked, cur_chunk |-> cur, res |-> "ub",
        msg |-> "top->val with top == NULL", arg |-> 0 - 1]
  ELSE IF ~ULess(m.val[m.top], ChunkCount(cd))
  THEN [code |-> marked, cur_chunk |-> m.val[m.top], res |-> "exit",
        msg |-> "Cannot go to nonexistent chunk", arg |-> m.val[m.top]]
  ELSE [code |-> marked, cur_chunk |-> m.val[m.top], res |-> "ok",
        msg |-> "", arg |-> 0 - 1]

(***************************************************************************)
(* The initial state: main has not called read_xrf_file yet.  No node is   *)
(* allocated; revision 1's stack_size is 1 from its definition.            *)
(***************************************************************************)
Init ==
  /\ rev \in {1, 2}
  /\ char_signed \in (IF rev = 2 THEN BOOLEAN ELSE {TRUE})
  /\ file \in Files
  /\ pc = "main"
  /\ status = "Running"
  /\ exit_status = 0 - 1
  /\ diag = NoDiag
  /\ ub = ""
  /\ code = [commands |-> << >>, visited |-> << >>, len |-> 0]
  /\ cur_chunk = 0
  /\ i = 0
  /\ visited = FALSE
  /\ mem = [top |-> NULL, bottom |-> NULL,
            stack_size |-> IF rev = 1 THEN 1 ELSE 0,
            val |-> [n \in Nodes |-> 0], next |-> [n \in Nodes |-> NULL],
            prev |-> [n \in Nodes |-> NULL], live |-> {}]
  /\ out = << >>
  /\ runs = << >>
  /\ twin = NoTwin

(***************************************************************************)
(* How a step ends.                                                        *)
(***************************************************************************)
\* exit(1) after writing msg to stderr
Fail(msg, arg) ==
  /\ status' = "Failed"
  /\ exit_status' = 1
  /\ diag' = [msg |-> msg, arg |-> arg]
  /\ pc' = "done"
  /\ ub' = ub

\* an undefined step: the process is killed by a signal (SIGFPE or SIGSEGV),
\* or runs on in a state the model says nothing about
UndefinedStep(what) ==
  /\ ub' = what
  /\ diag' = diag
  /\ \/ status' = "Crashed" /\ exit_status' \in {136, 139} /\ pc' = "done"
     \/ status' = "Running" /\ exit_status' = exit_status /\ pc' = "undefined"

\* the step goes on
Continue(next_pc) ==
  /\ pc' = next_pc
  /\ UNCHANGED << status, exit_status, diag, ub >>

(***************************************************************************)
(* main: read_xrf_file(filename), then execute_code().                     *)
(***************************************************************************)
ReadXrfFile ==
  /\ pc = "main"
  /\ LET st == read_xrf_file(rev, char_signed, file) IN
     /\ code' = [commands |-> st.commands, visited |-> st.visited, len |-> st.len]
     /\ runs' = [k \in 0..(ChunkCount(st) - 1) |-> 0]
     /\ CASE st.res = "ok" -> Continue("execute_code")
          [] st.res = "exit" -> Fail(st.msg, st.arg)
          [] st.res = "ub" -> UndefinedStep(st.msg)
  /\ UNCHANGED << rev, char_signed, file, cur_chunk, i, visited, mem, out, twin >>

\* execute_code up to its loop: cur_chunk = 0; top = new_stack_node(0);
\* bottom = top;
ExecuteCodeStart ==
  /\ pc = "execute_code"
  /\ cur_chunk' = 0
  /\ LET node == FirstFree(mem)
         m1 == new_stack_node(mem, node, 0)
     IN mem' = [m1 EXCEPT !.top = node, !.bottom = node]
  /\ Continue("call")
  /\ UNCHANGED << rev, char_signed, file, code, i, visited, out, runs, twin >>

\* the call execute_chunk(code.commands + cur_chunk * 5, code.visited[cur_chunk])
\* and the start of its loop
CallExecuteChunk ==
  /\ pc = "call"
  /\ IF cur_chunk < ChunkCount(code)
     THEN /\ visited' = code.visited[cur_chunk]
          /\ i' = 0
          /\ runs' = [runs EXCEPT ![cur_chunk] = IF @ < 2 THEN @ + 1 ELSE @]
          /\ Continue("chunk")
     ELSE /\ UndefinedStep("code.visited[cur_chunk] outside code.visited")
          /\ UNCHANGED << visited, i, runs >>
  /\ UNCHANGED << rev, char_signed, file, code, cur_chunk, mem, out, twin >>

(***************************************************************************)
(* One pass of execute_chunk's loop.                                       *)
(***************************************************************************)
AtSlot(c) ==
  /\ pc = "chunk"
  /\ code.commands[cur_chunk * COMMANDS_PER_CHUNK + i] = Ord(c)

\* i++ of the for statement after skip more slots were skipped, and the test
\* i < COMMANDS_PER_CHUNK
NextSlot(skip) ==
  /\ i' = i + skip + 1
  /\ Continue(IF i + skip + 1 < COMMANDS_PER_CHUNK THEN "chunk" ELSE "boundary")

\* the pass ends as the case's result res says
Dispatch(res) ==
  /\ res.res # "bound"
  \* a value that wrapped around (written as a negative number) passes
  /\ \A n \in Nodes : res.mem.val[n] <= MaxVal
  /\ CASE res.res = "ok" -> mem' = res.mem /\ NextSlot(0)
       [] res.res = "exit" -> mem' = mem /\ i' = i /\ Fail(res.msg, 0 - 1)
       [] res.res = "ub" -> mem' = mem /\ i' = i /\ UndefinedStep(res.msg)

Frame ==
  UNCHANGED << rev, char_signed, file, code, cur_chunk, visited, runs, twin >>

Slot_0 ==
  /\ AtSlot("0")
  /\ \E ch \in {EOF} \cup 0..MaxByte : Dispatch(case_0(rev, mem, ch))
  /\ out' = out
  /\ Frame

Slot_1 ==
  /\ AtSlot("1")
  /\ LET res == case_1(rev, mem) IN
     /\ Dispatch(res)
     /\ out' = IF res.res = "ok" /\ Len(out) < MaxOut
               THEN Append(out, res.ret % UCHAR_MOD) ELSE out
  /\ Frame

Slot_2 == AtSlot("2") /\ Dispatch(case_2(rev, mem)) /\ out' = out /\ Frame

Slot_3 == AtSlot("3") /\ Dispatch(case_3(rev, mem)) /\ out' = out /\ Frame

Slot_4 == AtSlot("4") /\ Dispatch(case_4(rev, mem)) /\ out' = out /\ Frame

Slot_5 == AtSlot("5") /\ Dispatch(case_5(rev, mem)) /\ out' = out /\ Frame

Slot_6 == AtSlot("6") /\ Dispatch(case_6(rev, mem)) /\ out' = out /\ Frame

Slot_7 == AtSlot("7") /\ Dispatch(case_7(rev, mem)) /\ out' = out /\ Frame

Slot_8 ==
  /\ AtSlot("8")
  /\ NextSlot(case_8(visited))
  /\ UNCHANGED << mem, out >>
  /\ Frame

Slot_9 == AtSlot("9") /\ Dispatch(case_9(rev, mem)) /\ out' = out /\ Frame

\* case 'A': return
Slot_A ==
  /\ AtSlot("A")
  /\ Continue("boundary")
  /\ UNCHANGED << i, mem, out >>
  /\ Frame

\* case 'B': exit(0)
Slot_B ==
  /\ AtSlot("B")
  /\ status' = "Halted"
  /\ exit_status' = 0
  /\ pc' = "done"
  /\ UNCHANGED << diag, ub, i, mem, out >>
  /\ Frame

Slot_C ==
  /\ AtSlot("C")
  /\ NextSlot(case_C(visited))
  /\ UNCHANGED << mem, out >>
  /\ Frame

\* rs[k] is what rand() returns in the pass of the shuffle loop with i = k
Slot_D ==
  /\ AtSlot("D")
  /\ \E rs \in [1..(Len(StackNodes(mem)) - 1) -> 0..MaxRand] :
        Dispatch(case_D(rev, mem, rs))
  /\ out' = out
  /\ Frame

Slot_E == AtSlot("E") /\ Dispatch(case_E(rev, mem)) /\ out' = out /\ Frame

\* 'F' has no case in the switch
\* the switch with a default label that refuses the character
Slot_F_refused ==
  /\ AtSlot("F")
  /\ Fail("Unknown command", Ord("F"))
  /\ UNCHANGED << i, mem, out >>
  /\ Frame

Slot_F ==
  /\ AtSlot("F")
  /\ NextSlot(0)
  /\ UNCHANGED << mem, out >>
  /\ Frame

\* AfterChunk with cur_chunk = pop_stack() in the place of cur_chunk = top->val
AfterChunk_pops ==
  /\ pc = "boundary"
  /\ LET a == after_chunk(rev, mem, code, cur_chunk) IN
     /\ code' = a.code
     /\ cur_chunk' = a.cur_chunk
     /\ mem' = IF a.res = "ok" THEN pop_stack(rev, mem).mem ELSE mem
     /\ CASE a.res = "ok" -> Continue("call")
          [] a.res = "exit" -> Fail(a.msg, a.arg)
          [] a.res = "ub" -> UndefinedStep(a.msg)
  /\ UNCHANGED << rev, char_signed, file, i, visited, out, runs, twin >>

\* execute_code after execute_chunk has returned
AfterChunk ==
  /\ pc = "boundary"
  /\ LET a == after_chunk(rev, mem, code, cur_chunk) IN
     /\ code' = a.code
     /\ cur_chunk' = a.cur_chunk
     /\ CASE a.res = "ok" -> Continue("call")
          [] a.res = "exit" -> Fail(a.msg, a.arg)
          [] a.res = "ub" -> UndefinedStep(a.msg)
  /\ UNCHANGED << rev, char_signed, file, i, visited, mem, out, runs, twin >>

Next ==
  \/ ReadXrfFile \/ ExecuteCodeStart \/ CallExecuteChunk
  \/ Slot_0 \/ Slot_1 \/ Slot_2 \/ Slot_3 \/ Slot_4 \/ Slot_5 \/ Slot_6
  \/ Slot_7 \/ Slot_8 \/ Slot_9 \/ Slot_A \/ Slot_B \/ Slot_C \/ Slot_D
  \/ Slot_E \/ Slot_F
  \/ AfterChunk

Spec == Init /\ [][Next]_vars

(***************************************************************************)
(* What the claims speak of.                                               *)
(***************************************************************************)
\* the opcode execute_chunk is about to dispatch
CurOp == code.commands[cur_chunk * COMMANDS_PER_CHUNK + i]

\* the values on the stack, from the top down, and their number
Stack == StackSeq(mem)
Size == Len(StackNodes(mem))

\* the number of values an opcode needs on the stack
Needs(c) ==
  IF c \in {Ord("1"), Ord("2"), Ord("3"), Ord("5"), Ord("6"), Ord("9")} THEN 1
  ELSE IF c \in {Ord("4"), Ord("7"), Ord("E")} THEN 2
  ELSE 0

\* the opcode at hand is executed with too few values on the stack
Underflow == pc = "chunk" /\ Size < Needs(CurOp)

\* the file holds no character but white space
NoCommands == \A k \in 1..Len(file) : isspace(file[k])

\* execute_code has been entered
InExecuteCode == pc \in {"execute_code", "call", "chunk", "boundary"}

\* C1: every run keeps running or ends Halted with exit status 0 or Failed
\* with exit status 1, and no state has performed an undefined step.
C1_EndsHaltedOrFailed ==
  /\ ub = ""
  /\ status \in {"Running", "Halted", "Failed"}
  /\ status = "Running" => exit_status = 0 - 1
  /\ status = "Halted" => exit_status = 0 /\ pc = "done" /\ CurOp = Ord("B")
  /\ status = "Failed" => exit_status = 1 /\ pc = "done" /\ diag.msg # ""

\* C2: execute_code starts with chunk 0 on a stack holding the one value 0,
\* and after a chunk that leaves a value t below the chunk count on top of
\* the stack it executes chunk t next.
C2_NextChunkIsTop ==
  [][ /\ pc = "execute_code" =>
           pc' = "call" /\ cur_chunk' = 0 /\ StackSeq(mem') = << 0 >>
      /\ pc = "call" /\ pc' = "chunk" =>
           cur_chunk' = cur_chunk /\ i' = 0 /\ mem' = mem
      /\ (pc = "boundary" /\ Size > 0 /\ Stack[1] \in 0..(ChunkCount(code) - 1)) =>
           pc' = "call" /\ cur_chunk' = Stack[1] /\ status' = "Running"
    ]_vars

C2_Witness ==
  /\ pc = "chunk" /\ i = 0 /\ cur_chunk = 1 /\ Size = 2 /\ Stack[1] = 1
  /\ runs[0] = 1

\* C3: a chunk that ends with a top value t at or above the chunk count makes
\* the run fail with exit status 1 and the message naming t, and every chunk
\* execute_code calls execute_chunk with exists.
C3_BadJumpIsFatal ==
  [][ /\ (pc = "boundary" /\ Size > 0 /\ ~ULess(Stack[1], ChunkCount(code))) =>
           /\ status' = "Failed" /\ exit_status' = 1 /\ pc' = "done"
           /\ diag' = [msg |-> "Cannot go to nonexistent chunk", arg |-> Stack[1]]
      /\ pc = "call" => cur_chunk < ChunkCount(code)
    ]_vars

\* C4: a chunk that ends with an empty stack makes the run fail with exit
\* status 1 at that point: no stack value is read, and nothing runs after.
C4_EmptyAtBoundaryIsFatal ==
  [][ /\ (pc = "boundary" /\ Size = 0) =>
           /\ status' = "Failed" /\ exit_status' = 1 /\ pc' = "done"
           /\ diag'.msg = "Can't have an empty stack upon reaching the end of a chunk"
           /\ ub' = "" /\ mem' = mem /\ cur_chunk' = cur_chunk
      /\ status # "Failed"
    ]_vars

C4_Witness ==
  /\ status = "Failed" /\ Size = 0
  /\ diag.msg = "Can't have an empty stack upon reaching the end of a chunk"

\* C5: opcode 8 skips the next slot exactly in the first execution of its
\* chunk, opcode C exactly in the later ones.
C5_SkipByVisit ==
  [][ /\ (pc = "chunk" /\ CurOp = Ord("8")) =>
           i' = IF runs[cur_chunk] = 1 THEN i + 2 ELSE i + 1
      /\ (pc = "chunk" /\ CurOp = Ord("C")) =>
           i' = IF runs[cur_chunk] > 1 THEN i + 2 ELSE i + 1
    ]_vars

C5_Witness ==
  /\ pc = "chunk" /\ i = 2 /\ runs[cur_chunk] = 2
  /\ code.commands[cur_chunk * COMMANDS_PER_CHUNK] = Ord("C")
  /\ code.commands[cur_chunk * COMMANDS_PER_CHUNK + 1] # Ord("C")

C7_EmptyProgramRejected ==
  /\ (pc # "main" /\ NoCommands) => status = "Failed" /\ exit_status = 1
  /\ InExecuteCode => ChunkCount(code) > 0

\* C8: an opcode executed with fewer values on the stack than it needs makes
\* the run fail with exit status 1 and touches no node.
C8_UnderflowIsFatal ==
  [][ Underflow =>
        /\ status' = "Failed" /\ exit_status' = 1 /\ pc' = "done"
        /\ diag'.msg # "" /\ ub' = "" /\ mem' = mem /\ out' = out
    ]_vars

C8_Witness ==
  /\ status = "Failed" /\ exit_status = 1 /\ Size = 1 /\ rev = 1
  /\ diag.msg = "Cannot get the difference of the top two values of a one-value stack"
  /\ CurOp = Ord("E")

\* C9: opcode 0 always succeeds: it puts the value read on top of the stack
\* and leaves the values below as they were.
C9_PushAlwaysSucceeds ==
  [][ (pc = "chunk" /\ CurOp = Ord("0")) =>
        /\ status' = "Running" /\ ub' = ""
        /\ Len(StackSeq(mem')) = Size + 1
        /\ \A k \in 1..Size : StackSeq(mem')[k + 1] = Stack[k]
    ]_vars

\* C10: opcode D on an empty stack changes nothing and the run goes on with
\* the next slot.
C10_ShuffleEmptyIsNoOp ==
  [][ (pc = "chunk" /\ CurOp = Ord("D") /\ Size = 0) =>
        /\ status' = "Running" /\ ub' = "" /\ mem' = mem /\ i' = i + 1
        /\ pc' \in {"chunk", "boundary"}
    ]_vars

\* chunk k of the loaded code is the text t
ChunkIs(k, t) ==
  /\ k < ChunkCount(code)
  /\ \A j \in 0..(COMMANDS_PER_CHUNK - 1) :
       code.commands[k * COMMANDS_PER_CHUNK + j] = Ord(t[j + 1])

\* how often v occurs in the sequence q
Count(q, v) == Cardinality({k \in 1..Len(q) : q[k] = v})

\* C11: opcode D on a stack that is not empty leaves the number of nodes and
\* the multiset of their values as they were, whatever rand() returns.
C11_ShuffleKeepsMultiset ==
  [][ (pc = "chunk" /\ CurOp = Ord("D") /\ Size > 0) =>
        /\ status' = "Running" /\ ub' = ""
        /\ StackNodes(mem') = StackNodes(mem)
        /\ \A v \in {Stack[k] : k \in 1..Size} \cup {StackSeq(mem')[k] : k \in 1..Size} :
             Count(StackSeq(mem'), v) = Count(Stack, v)
    ]_vars

\* after 5 3 5 D the stack was << 2, 1 >> and the shuffle has exchanged them
C11_Witness ==
  /\ pc = "chunk" /\ i = 4 /\ status = "Running"
  /\ ChunkIs(0, <<"5","3","5","D","B">>)
  /\ Stack = << 1, 2 >>

\* execute_code's loop runs
InLoop == pc \in {"call", "chunk", "boundary"} /\ status = "Running"

\* push_stack for each value of vs in turn, up to the first call that fails
RECURSIVE PushAll(_, _, _)
PushAll(r, m, vs) ==
  IF vs = << >> THEN Ok(m, 0)
  ELSE LET p == push_stack(r, m, Head(vs)) IN
       IF p.res # "ok" THEN p ELSE PushAll(r, p.mem, Tail(vs))

\* n calls of pop_stack; ret is the sequence of the values returned
RECURSIVE PopAll(_, _, _)
PopAll(r, m, n) ==
  IF n = 0 THEN Ok(m, << >>)
  ELSE LET p == pop_stack(r, m) IN
       IF p.res # "ok" THEN p
       ELSE LET q == PopAll(r, p.mem, n - 1) IN
            IF q.res # "ok" THEN q ELSE Ok(q.mem, << p.ret >> \o q.ret)

Reverse(q) == [k \in 1..Len(q) |-> q[Len(q) + 1 - k]]

\* the sequences of 1 to MaxNodes bytes
ByteSeqs == UNION { [1..n -> 0..MaxByte] : n \in 1..MaxNodes }

\* the pushes of vs and as many pops give the values back in reverse order
\* and leave the stack as it was (or the model has too few nodes for vs)
LIFO(r, m, vs) ==
  LET pushed == PushAll(r, m, vs) IN
  \/ pushed.res = "bound"
  \/ /\ pushed.res = "ok"
     /\ StackSeq(pushed.mem) = Reverse(vs) \o StackSeq(m)
     /\ LET popped == PopAll(r, pushed.mem, Len(vs)) IN
        /\ popped.res = "ok"
        /\ popped.ret = Reverse(vs)
        /\ StackSeq(popped.mem) = StackSeq(m)

\* C12: from every stack the run reaches, pushes followed by as many pops
\* return the values in reverse order and leave the values below unchanged.
C12_PushPopIsLIFO == InLoop => \A vs \in ByteSeqs : LIFO(rev, mem, vs)

\* the same from every stack but revision 1's emptied stack
C12_ExceptEmptiedRev1 ==
  (InLoop /\ ~(rev = 1 /\ Size = 0)) => \A vs \in ByteSeqs : LIFO(rev, mem, vs)

\* n calls of send_top_to_bottom, up to the first that fails
RECURSIVE RotateN(_, _, _)
RotateN(r, m, n) ==
  IF n = 0 THEN Ok(m, 0)
  ELSE LET p == send_top_to_bottom(r, m) IN
       IF p.res # "ok" THEN p ELSE RotateN(r, p.mem, n - 1)

\* the sequence q with its first value moved to the end
Rotated(q) == Tail(q) \o << Head(q) >>

\* C13: opcode 9 on a stack of n >= 2 values moves the top value to the
\* bottom and keeps the order of the others, and from every stack the run
\* reaches n calls of send_top_to_bottom on n values restore the order.
C13_RotateMovesTopToBottom ==
  /\ [][ (pc = "chunk" /\ CurOp = Ord("9") /\ Size >= 2) =>
            /\ status' = "Running" /\ ub' = ""
            /\ StackSeq(mem') = Rotated(Stack)
       ]_vars
  /\ []((InLoop /\ Size >= 1) =>
          LET once == send_top_to_bottom(rev, mem)
              all == RotateN(rev, mem, Size)
          IN /\ once.res = "ok"
             /\ StackSeq(once.mem) = Rotated(Stack)
             /\ all.res = "ok"
             /\ StackSeq(all.mem) = Stack)

\* after 0 0 2 9 revision 1 has rotated << 1, 0 >> below the node that the
\* pop left cached above the top
C13_Witness ==
  /\ pc = "chunk" /\ i = 4 /\ status = "Running" /\ rev = 1
  /\ ChunkIs(0, <<"0","0","2","9","0">>)
  /\ Stack = << 0, 1 >>
  /\ mem.prev[mem.top] # NULL

\* v - 1 for v > 0, and 0 for 0
Decremented(v) == IF v = 0 THEN 0 ELSE USub(v, 1)

\* the stack q with its top value decremented
DecrementedTop(q) == << Decremented(Head(q)) >> \o Tail(q)

\* C14: opcode 6 on a stack with top value v leaves the top at v - 1 when
\* v > 0 and at 0 when v = 0, never at the wrapped value UINT_MAX, and
\* changes nothing else on the stack.
C14_DecrementStopsAtZero ==
  /\ [][ (pc = "chunk" /\ CurOp = Ord("6") /\ Size >= 1) =>
            /\ status' = "Running" /\ ub' = ""
            /\ StackNodes(mem') = StackNodes(mem)
            /\ StackSeq(mem') = DecrementedTop(Stack)
            /\ Stack[1] = 0 => StackSeq(mem')[1] # UNeg(1)
       ]_vars
  /\ []((InLoop /\ Size >= 1) =>
          LET res == case_6(rev, mem) IN
          /\ res.res = "ok"
          /\ StackSeq(res.mem) = DecrementedTop(Stack))

\* 6 has executed on the value 0 that execute_code starts with
C14_Witness ==
  /\ pc = "chunk" /\ i = 1 /\ status = "Running"
  /\ ChunkIs(0, <<"6","A","F","F","F">>) /\ cur_chunk = 0 /\ runs[0] = 1
  /\ Stack = << 0 >>

\* the characters of the file f that are not white space, in order
NonSpace(f) == SelectSeq(f, LAMBDA c : ~isspace(c))

\* the positions of f that hold neither a command nor white space
BadPositions(f) == {k \in 1..Len(f) : ~isspace(f[k]) /\ ~IsCommand(f[k])}

\* the first character of f that is neither
FirstBad(f) == f[CHOOSE k \in BadPositions(f) : \A l \in BadPositions(f) : k <= l]

\* what the loader owes the file it was given
LoaderContract ==
  pc # "main" =>
    /\ BadPositions(file) # {} =>
          /\ status = "Failed" /\ exit_status = 1
          /\ diag = [msg |-> "Unknown character encountered",
                     arg |-> FirstBad(file)]
    /\ (BadPositions(file) = {} /\ Len(NonSpace(file)) % COMMANDS_PER_CHUNK # 0) =>
          /\ status = "Failed" /\ exit_status = 1
          /\ diag.msg = "Inadequate code length"
    /\ pc = "execute_code" =>
          /\ code.len = Len(NonSpace(file))
          /\ code.len % COMMANDS_PER_CHUNK = 0
          /\ DOMAIN code.commands = 0..(code.len - 1)
          /\ \A j \in 0..(code.len - 1) : code.commands[j] = NonSpace(file)[j + 1]
          /\ DOMAIN code.visited = 0..(ChunkCount(code) - 1)
          /\ \A k \in 0..(ChunkCount(code) - 1) : ~code.visited[k]

\* C15: a file with a character that is neither a command nor white space
\* fails naming that character, a file of commands and white space whose
\* command count is no multiple of 5 fails with the length error, and of an
\* accepted file code holds exactly the commands, in order, a multiple of 5
\* of them, with every visited flag false.
C15_LoaderContract == LoaderContract

\* the same of revision 1, which reads the characters into an int
C15_Rev1LoaderContract == rev = 1 => LoaderContract

\* |b - a| of two unsigned values
AbsDiff(a, b) == IF ULess(b, a) THEN USub(a, b) ELSE USub(b, a)

\* the stack q with its two top values replaced by their difference
DiffOfTopTwo(q) == << AbsDiff(q[1], q[2]) >> \o SubSeq(q, 3, Len(q))

\* C16: opcode E on a stack with top a and second value b removes exactly
\* one element and leaves the new top at |b - a|, never at a wrapped value;
\* the elements below are unchanged.
C16_AbsDiffOfTopTwo ==
  /\ [][ (pc = "chunk" /\ CurOp = Ord("E") /\ Size >= 2) =>
            /\ status' = "Running" /\ ub' = ""
            /\ StackSeq(mem') = DiffOfTopTwo(Stack)
            /\ StackNodes(mem') = Tail(StackNodes(mem))
            /\ (Stack[1] \in 0..MaxVal /\ Stack[2] \in 0..MaxVal) =>
                  /\ StackSeq(mem')[1] \in 0..MaxVal
                  /\ StackSeq(mem')[1] = IF Stack[1] <= Stack[2]
                                        THEN Stack[2] - Stack[1]
                                        ELSE Stack[1] - Stack[2]
       ]_vars
  /\ []((InLoop /\ Size >= 2) =>
          LET res == case_E(rev, mem) IN
          /\ res.res = "ok"
          /\ StackSeq(res.mem) = DiffOfTopTwo(Stack))

\* after 3 5 E the top 1 and the 0 below it have become the one value 1
C16_Witness ==
  /\ pc = "chunk" /\ i = 3 /\ status = "Running"
  /\ ChunkIs(0, <<"3","5","E","A","A">>)
  /\ Stack = << 1 >>

\* the chunks of the loaded code
ChunkIds == 0..(ChunkCount(code) - 1)

\* chunk k has not completed an execution: execute_chunk was never called
\* on it, or its first call has not returned to the statement that marks it
NotYetCompleted(k) ==
  \/ runs[k] = 0
  \/ runs[k] = 1 /\ cur_chunk = k /\ pc \in {"chunk", "boundary"}

\* C17: the visited flag of chunk k is false until the first execution of k
\* completes, the step after execute_chunk returns sets it before the two
\* tests (so also when that step fails), no step of the chunk itself sets it
\* (so a halt by B leaves it unset), and the flag execute_chunk was given is
\* the one of the chunk at the call and stays the same during the execution.
C17_VisitedSetAfterFirstExecution ==
  /\ [](InLoop => /\ \A k \in ChunkIds : NotYetCompleted(k) => ~code.visited[k]
                  /\ pc = "chunk" => visited = code.visited[cur_chunk])
  /\ [][ /\ pc = "boundary" =>
               /\ code'.visited[cur_chunk]
               /\ \A k \in ChunkIds \ {cur_chunk} : code'.visited[k] = code.visited[k]
         /\ pc = "call" =>
               /\ code' = code
               /\ cur_chunk \in ChunkIds => visited' = code.visited[cur_chunk]
         /\ pc = "chunk" => visited' = visited /\ code' = code
         /\ (pc = "chunk" /\ CurOp = Ord("8")) =>
               i' = i + 1 + (IF code.visited[cur_chunk] THEN 0 ELSE 1)
         /\ (pc = "chunk" /\ CurOp = Ord("C")) =>
               i' = i + 1 + (IF code.visited[cur_chunk] THEN 1 ELSE 0)
         /\ status' = "Halted" => code' = code
     ]_vars

\* the first execution of a chunk left the stack empty: the run has failed
\* at the boundary with the chunk marked as visited
C17_Witness ==
  /\ status = "Failed" /\ pc = "done"
  /\ diag.msg = "Can't have an empty stack upon reaching the end of a chunk"
  /\ runs[cur_chunk] = 1
  /\ code.visited[cur_chunk]

\* the counter agrees with the chain, and bottom is the chain's last node
SizeAndBottomOfChain ==
  /\ rev = 1 => mem.stack_size = Size
  /\ Size > 0 => mem.bottom = StackNodes(mem)[Size]

\* bottom is a node exactly when the stack holds a value
BottomValidIffNonEmpty == (mem.bottom # NULL) <=> (Size > 0)

\* C18: in every state of the run the tracked size equals the number of
\* nodes on the chain from the top, bottom is the last node of that chain
\* when the stack is non-empty, and bottom is non-null if and only if the
\* stack is non-empty.
C18_BookkeepingConsistent ==
  InLoop => SizeAndBottomOfChain /\ BottomValidIffNonEmpty

\* the same but for the bottom pointer of revision 1's empty stack
C18_ExceptBottomOfEmptiedRev1 ==
  InLoop => /\ SizeAndBottomOfChain
            /\ ~(rev = 1 /\ Size = 0) => BottomValidIffNonEmpty

\* C19: choosing the next chunk does not consume the jump target.  The step
\* after a chunk and the call of the next chunk leave the stack and the
\* output as they are, the first changes nothing but the executed chunk's
\* visited flag and cur_chunk, the top value is still the index of the chunk
\* that starts, and no step of the run changes the opcode text or the
\* visited flag of a chunk other than the one just executed.
C19_BoundaryKeepsStack ==
  [][ /\ pc = "boundary" =>
            /\ mem' = mem /\ out' = out
            /\ code'.commands = code.commands /\ code'.len = code.len
            /\ \A k \in ChunkIds \ {cur_chunk} : code'.visited[k] = code.visited[k]
            /\ pc' = "call" => /\ StackSeq(mem') # << >>
                               /\ cur_chunk' = StackSeq(mem')[1]
      /\ pc = "call" =>
            /\ mem' = mem /\ out' = out /\ code' = code /\ cur_chunk' = cur_chunk
            /\ pc' = "chunk" => i' = 0 /\ StackSeq(mem')[1] = cur_chunk'
      /\ pc = "chunk" => code' = code /\ cur_chunk' = cur_chunk
    ]_vars

\* chunk 0 ended with 1 on top of the stack and chunk 1 starts its first
\* execution with that 1 still on top
C19_Witness ==
  /\ pc = "chunk" /\ i = 0 /\ status = "Running"
  /\ cur_chunk = 1 /\ runs = << >> @@ (0 :> 1 @@ 1 :> 1)
  /\ code.visited[0] /\ ~code.visited[1]
  /\ Size >= 1 /\ Stack[1] = 1

(***************************************************************************)
(* The two revisions side by side.  A process is a record of what the      *)
(* variables pc .. out hold for one process, and step gives the process    *)
(* after one step: ch is what getchar returns if the step calls it,        *)
(* rs[k] what rand() returns in the pass of the shuffle loop with i = k,   *)
(* and u what an undefined step turns out to do.                           *)
(***************************************************************************)
Main ==
  [pc |-> pc, status |-> status, exit_status |-> exit_status, diag |-> diag,
   ub |-> ub, code |-> code, cur_chunk |-> cur_chunk, i |-> i,
   visited |-> visited, mem |-> mem, out |-> out]

UndefinedOutcomes == {"SIGFPE", "SIGSEGV", "runs on"}

RandResults == [1..MaxNodes -> 0..MaxRand]

FailOf(M, msg, arg) ==
  [M EXCEPT !.status = "Failed", !.exit_status = 1,
            !.diag = [msg |-> msg, arg |-> arg], !.pc = "done"]

UndefinedOf(M, what, u) ==
  IF u = "runs on" THEN [M EXCEPT !.ub = what, !.pc = "undefined"]
  ELSE [M EXCEPT !.ub = what, !.status = "Crashed", !.pc = "done",
                 !.exit_status = IF u = "SIGFPE" THEN 136 ELSE 139]

NextSlotOf(M, skip) ==
  [M EXCEPT !.i = M.i + skip + 1,
            !.pc = IF M.i + skip + 1 < COMMANDS_PER_CHUNK
                   THEN "chunk" ELSE "boundary"]

\* pc = "bound": the step needs a node or a value the model does not have
DispatchOf(M, res, u) ==
  IF res.res = "bound" \/ \E n \in Nodes : res.mem.val[n] > MaxVal
  THEN [M EXCEPT !.pc = "bound"]
  ELSE CASE res.res = "ok" -> NextSlotOf([M EXCEPT !.mem = res.mem], 0)
         [] res.res = "exit" -> FailOf(M, res.msg, 0 - 1)
         [] res.res = "ub" -> UndefinedOf(M, res.msg, u)

\* one pass of execute_chunk's loop
slot(r, M, ch, rs, u) ==
  LET c == M.code.commands[M.cur_chunk * COMMANDS_PER_CHUNK + M.i] IN
  CASE c = Ord("0") -> DispatchOf(M, case_0(r, M.mem, ch), u)
    [] c = Ord("1") ->
         LET res == case_1(r, M.mem)
             N == DispatchOf(M, res, u)
         IN IF res.res = "ok" /\ N.pc # "bound" /\ Len(M.out) < MaxOut
            THEN [N EXCEPT !.out = Append(M.out, res.ret % UCHAR_MOD)] ELSE N
    [] c = Ord("2") -> DispatchOf(M, case_2(r, M.mem), u)
    [] c = Ord("3") -> DispatchOf(M, case_3(r, M.mem), u)
    [] c = Ord("4") -> DispatchOf(M, case_4(r, M.mem), u)
    [] c = Ord("5") -> DispatchOf(M, case_5(r, M.mem), u)
    [] c = Ord("6") -> DispatchOf(M, case_6(r, M.mem), u)
    [] c = Ord("7") -> DispatchOf(M, case_7(r, M.mem), u)
    [] c = Ord("8") -> NextSlotOf(M, case_8(M.visited))
    [] c = Ord("9") -> DispatchOf(M, case_9(r, M.mem), u)
    [] c = Ord("A") -> [M EXCEPT !.pc = "boundary"]
    [] c = Ord("B") ->
         [M EXCEPT !.status = "Halted", !.exit_status = 0, !.pc = "done"]
    [] c = Ord("C") -> NextSlotOf(M, case_C(M.visited))
    [] c = Ord("D") -> DispatchOf(M, case_D(r, M.mem, rs), u)
    [] c = Ord("E") -> DispatchOf(M, case_E(r, M.mem), u)
    [] c = Ord("F") -> NextSlotOf(M, 0)

step(r, M, ch, rs, u) ==
  CASE M.pc = "execute_code" ->
         LET node == FirstFree(M.mem)
             m1 == new_stack_node(M.mem, node, 0)
         IN [M EXCEPT !.cur_chunk = 0, !.pc = "call",
                      !.mem = [m1 EXCEPT !.top = node, !.bottom = node]]
    [] M.pc = "call" ->
         IF M.cur_chunk < ChunkCount(M.code)
         THEN [M EXCEPT !.visited = M.code.visited[M.cur_chunk], !.i = 0,
                        !.pc = "chunk"]
         ELSE UndefinedOf(M, "code.visited[cur_chunk] outside code.visited", u)
    [] M.pc = "chunk" -> slot(r, M, ch, rs, u)
    [] M.pc = "boundary" ->
         LET a == after_chunk(r, M.mem, M.code, M.cur_chunk)
             N == [M EXCEPT !.code = a.code, !.cur_chunk = a.cur_chunk]
         IN (CASE a.res = "ok" -> [N EXCEPT !.pc = "call"]
               [] a.res = "exit" -> FailOf(N, a.msg, a.arg)
               [] a.res = "ub" -> UndefinedOf(N, a.msg, u))
    [] OTHER -> M

\* the process has ended, or runs on after an undefined step
Stopped(M) == M.pc \in {"done", "undefined"}

\* the opcode the process is about to dispatch is c
AboutTo(M, c) ==
  /\ M.pc = "chunk"
  /\ M.code.commands[M.cur_chunk * COMMANDS_PER_CHUNK + M.i] = Ord(c)

\* every step of a process after read_xrf_file is a step of step
StepIsNext ==
  [][ pc # "main" =>
        \E ch \in {EOF} \cup 0..MaxByte, rs \in RandResults,
           u \in UndefinedOutcomes :
           Main' = step(rev, Main, ch, rs, u) ]_vars

\* both revisions have read the file and hold the same code
LoadedByBoth(f) ==
  LET st1 == read_xrf_file(1, TRUE, f)
      st2 == read_xrf_file(2, TRUE, f)
  IN /\ st1.res = "ok" /\ st2.res = "ok"
     /\ st1.len = st2.len /\ st1.commands = st2.commands
     /\ st1.visited = st2.visited

\* revision 1 in the variables of one process, revision 2 in twin, each about
\* to call execute_code on the code of the same file
InitPair ==
  /\ rev = 1
  /\ char_signed = TRUE
  /\ file \in {f \in Files : LoadedByBoth(f)}
  /\ pc = "execute_code"
  /\ status = "Running"
  /\ exit_status = 0 - 1
  /\ diag = NoDiag
  /\ ub = ""
  /\ LET st == read_xrf_file(1, TRUE, file) IN
     code = [commands |-> st.commands, visited |-> st.visited, len |-> st.len]
  /\ cur_chunk = 0
  /\ i = 0
  /\ visited = FALSE
  /\ mem = [top |-> NULL, bottom |-> NULL, stack_size |-> 1,
            val |-> [n \in Nodes |-> 0], next |-> [n \in Nodes |-> NULL],
            prev |-> [n \in Nodes |-> NULL], live |-> {}]
  /\ out = << >>
  /\ runs = << >>
  /\ twin = [Main EXCEPT !.mem.stack_size = 0]

\* the step of revision 1 is tracked in the variables of one process
SetMain(N) ==
  /\ pc' = N.pc /\ status' = N.status /\ exit_status' = N.exit_status
  /\ diag' = N.diag /\ ub' = N.ub /\ code' = N.code
  /\ cur_chunk' = N.cur_chunk /\ i' = N.i /\ visited' = N.visited
  /\ mem' = N.mem /\ out' = N.out

\* both processes take their next step, given the same input byte and the
\* same results of rand()
\* the inputs and outcomes a step of the two can depend on
BytesRead(M1, M2) ==
  IF AboutTo(M1, "0") \/ AboutTo(M2, "0") THEN {EOF} \cup 0..MaxByte ELSE {EOF}

RandDrawn(M1, M2) ==
  IF AboutTo(M1, "D") \/ AboutTo(M2, "D")
  THEN RandResults ELSE {[k \in 1..MaxNodes |-> 0]}

OutcomesOf(r, M, ch, rs) ==
  IF step(r, M, ch, rs, "runs on").ub # M.ub
  THEN UndefinedOutcomes ELSE {"runs on"}

PairStep ==
  /\ ~Stopped(Main) \/ ~Stopped(twin)
  /\ \E ch \in BytesRead(Main, twin), rs \in RandDrawn(Main, twin) :
     \E u1 \in OutcomesOf(1, Main, ch, rs), u2 \in OutcomesOf(2, twin, ch, rs) :
    LET N1 == step(1, Main, ch, rs, u1)
        N2 == step(2, twin, ch, rs, u2)
    IN /\ N1.pc # "bound" /\ N2.pc # "bound"
       /\ SetMain(N1)
       /\ twin' = N2
       /\ UNCHANGED << rev, char_signed, file, runs >>

NextPair == PairStep

SpecPair == InitPair /\ [][NextPair]_vars

\* the two processes cannot be told apart: both have taken an undefined
\* step, or neither has and they are at the same place of the same chunk
\* with the same outcome, the same output and the same values on the stack
SameObservation(M1, M2) ==
  IF M1.ub # "" \/ M2.ub # "" THEN M1.ub # "" /\ M2.ub # ""
  ELSE /\ M1.pc = M2.pc /\ M1.status = M2.status
       /\ M1.exit_status = M2.exit_status
       /\ M1.cur_chunk = M2.cur_chunk /\ M1.i = M2.i
       /\ M1.out = M2.out
       /\ StackSeq(M1.mem) = StackSeq(M2.mem)

\* C20: run on the same program with the same input and the same results of
\* rand(), the two revisions execute the same chunks and slots, write the
\* same bytes, end in the same outcome and hold equal stacks after every
\* step.
C20_RevisionsEquivalent == SameObservation(Main, twin)

\* the revisions agree up to the first undefined step of either
C20_EquivalentUntilUndefined ==
  (ub = "" /\ twin.ub = "") => SameObservation(Main, twin)

\* C21: the character F, which read_xrf_file accepts as a command, matches
\* no case of execute_chunk's switch: the pass leaves the stack, the visited
\* flags and the output unchanged, does not fail, and goes on to the next
\* slot; and an F in the slot after an 8 or a C is the slot they skip.
C21_FIsNoOp ==
  /\ [][ /\ (pc = "chunk" /\ CurOp = Ord("F")) =>
              /\ mem' = mem /\ out' = out /\ code' = code
              /\ visited' = visited /\ cur_chunk' = cur_chunk
              /\ status' = "Running" /\ ub' = "" /\ diag' = diag
              /\ i' = i + 1
              /\ pc' = IF i + 1 < COMMANDS_PER_CHUNK THEN "chunk" ELSE "boundary"
         /\ (/\ pc = "chunk" /\ CurOp \in {Ord("8"), Ord("C")}
             /\ i + 1 < COMMANDS_PER_CHUNK
             /\ code.commands[cur_chunk * COMMANDS_PER_CHUNK + i + 1] = Ord("F")
             /\ visited = (CurOp = Ord("C"))) =>
              /\ i' = i + 2 /\ mem' = mem /\ out' = out /\ code' = code
              /\ status' = "Running"
       ]_vars
  /\ [](pc = "execute_code" =>
          \A j \in 1..Len(NonSpace(file)) :
             NonSpace(file)[j] = Ord("F") => code.commands[j - 1] = Ord("F"))

\* in its first execution the chunk 8 F F A 5 has skipped the F after the 8
\* and executed the F after that one
C21_Witness ==
  /\ pc = "chunk" /\ i = 3 /\ status = "Running"
  /\ ChunkIs(0, <<"8","F","F","A","5">>) /\ ChunkCount(code) = 1
  /\ runs[0] = 1 /\ ~visited
  /\ Stack = << 0 >>

=============================================================================
